---------------------------- MODULE Spec2Model ----------------------------
(***************************************************************************)
(* A model of the UTF-8 decoder of src/parsing/utf8.cc: the byte           *)
(* classifiers, next_codepoint, is_valid_internal, iterator_t::advance and *)
(* next_textual_element.                                                   *)
(*                                                                         *)
(* A byte range is a sequence of bytes 0..255; an iterator into it is a    *)
(* 0-based offset, so that `p - start` is integer subtraction and `*p` is  *)
(* buf[p + 1].                                                             *)
(***************************************************************************)
EXTENDS Integers, Sequences, FiniteSets, TLC

VARIABLES
    buf,        \* the byte range [0, Len(buf)) handed to the library
    scalars,    \* the scalar values buf was encoded from (<<>> for raw bytes)
    keep_going, \* the predicate handed to next_textual_element
    build,      \* what a read through a dead local's reference does
    pc,         \* control position of the caller
    begin,      \* `start` / `begin` argument of the last call
    cbegin,     \* loop local of is_valid_internal, next_textual_element
    position,   \* iterator_t::position, or the position a call returned
    codepoint,  \* the char32_t out-parameter, iterator_t::last_seen
    reason,     \* reason_t: [explanation, position]
    seen_end,   \* iterator_t::seen_end
    ret,        \* return value of is_valid_internal
    calls       \* number of calls made so far by the caller

vars == << buf, scalars, keep_going, build, pc, begin, cbegin, position,
           codepoint, reason, seen_end, ret, calls >>

---------------------------------------------------------------------------
(* Bounds of the model *)

MaxLen == 4          \* longest raw byte range
MaxScalars == 2      \* longest sequence of scalar values that is encoded
MaxScanLen == 3      \* longest raw byte range a cursor or element scan walks
ExtraCalls == 2      \* calls a caller makes beyond the length of its range

---------------------------------------------------------------------------
(* unsigned int arithmetic *)

\* The model's unsigned int is 30 bits wide, the widest TLC's
\* integers allow.  No value the decoder computes needs more than 21 bits
\* (a four-byte sequence carries 3 + 6 + 6 + 6), and the complement of a
\* mask is only ever read through `& 0xFF`, so no result depends on the
\* bits above.
UIntRange == 2 ^ 30

\* a & b on unsigned ints
RECURSIVE BitAnd(_, _)
BitAnd(a, b) ==
    IF a = 0 \/ b = 0 THEN 0
    ELSE (a % 2) * (b % 2) + 2 * BitAnd(a \div 2, b \div 2)

\* a | b on unsigned ints
RECURSIVE BitOr(_, _)
BitOr(a, b) ==
    IF a = 0 THEN b
    ELSE IF b = 0 THEN a
    ELSE (IF a % 2 = 1 \/ b % 2 = 1 THEN 1 ELSE 0)
         + 2 * BitOr(a \div 2, b \div 2)

\* ~a on an unsigned int
BitNot(a) == UIntRange - 1 - a

\* a << n on an unsigned int
ShiftLeft(a, n) == (a * (2 ^ n)) % UIntRange

---------------------------------------------------------------------------
(* Byte classifier *)

HIGH_BIT == 128          \* 0x80
HIGH_TWO_BITS == 192     \* 0xC0
HIGH_THREE_BITS == 224   \* 0xE0
HIGH_FOUR_BITS == 240    \* 0xF0
HIGH_FIVE_BITS == 248    \* 0xF8

is_standalone(c) == BitAnd(c, HIGH_BIT) = 0

is_twobyte_start(c) == BitAnd(c, HIGH_THREE_BITS) = HIGH_TWO_BITS

is_threebyte_start(c) == BitAnd(c, HIGH_FOUR_BITS) = HIGH_THREE_BITS

is_fourbyte_start(c) == BitAnd(c, HIGH_FIVE_BITS) = HIGH_FOUR_BITS

is_continuation(c) == BitAnd(c, HIGH_TWO_BITS) = HIGH_BIT

extract_bits(c, bits) == BitAnd(BitAnd(c, BitNot(bits)), 255)

continuation_data(c) == extract_bits(c, HIGH_TWO_BITS)

extract_and_shift(c, bits, amount) == ShiftLeft(extract_bits(c, bits), amount)

---------------------------------------------------------------------------
(* Codepoint decoder *)

nullptr == "nullptr"     \* the null `const char *`

EndOfString == "Expected continuation byte, saw end of string"
SomethingElse == "Expected continuation byte, saw something else"
Overlong == "Overlong encoding seen"
NonUnicode == "Non-Unicode character encoded (beyond U+10FFFF)"
InvalidInitial == "Invalid initial byte seen"

Explanations == {EndOfString, SomethingElse, Overlong, NonUnicode, InvalidInitial}

\* reason_t as next_codepoint resets it
EmptyReason == [explanation |-> "", position |-> 0]

\* *p for the offset p
Deref(b, p) == b[p + 1]

\* what a call of next_codepoint leaves: the returned iterator and the
\* two out-parameters
Outcome(pos, cp, rsn) == [position |-> pos, codepoint |-> cp, reason |-> rsn]

\* fail leaving out the correction for the postincrement
fail_no_correction(explanation, start, pos) ==
    Outcome(pos, 65533,
            [explanation |-> explanation, position |-> pos - start])

\* fail(explanation, start, std::move(position), codepoint, reason):
\* `position - start - 1`, "-1 corrects for postincrement"
fail(explanation, start, pos) ==
    Outcome(pos, 65533,
            [explanation |-> explanation, position |-> pos - start - 1])

is_valid_continuation_byte(b, pos, end) ==
    IF pos = end THEN EndOfString
    ELSE IF ~is_continuation(Deref(b, pos)) THEN SomethingElse
    ELSE nullptr

\* 110xxxxx - two character multibyte; p is one past the lead byte
twobyte(b, start, end, current, p) ==
    LET cp0 == extract_and_shift(current, HIGH_THREE_BITS, 6)
        e1 == is_valid_continuation_byte(b, p, end)
    IN  IF e1 # nullptr THEN fail(e1, start, p)
        ELSE LET cp1 == BitOr(cp0, continuation_data(Deref(b, p)))
             IN  IF cp1 < 128 THEN fail(Overlong, start, p + 1)
                 ELSE Outcome(p + 1, cp1, EmptyReason)

\* 1110xxxx - three character multibyte
threebyte(b, start, end, current, p) ==
    LET cp0 == extract_and_shift(current, HIGH_FOUR_BITS, 12)
        e1 == is_valid_continuation_byte(b, p, end)
    IN  IF e1 # nullptr THEN fail(e1, start, p)
        ELSE
        LET cp1 == BitOr(cp0, ShiftLeft(continuation_data(Deref(b, p)), 6))
            e2 == is_valid_continuation_byte(b, p + 1, end)
        IN  IF e2 # nullptr THEN fail(e2, start, p + 1)
            ELSE
            LET cp2 == BitOr(cp1, continuation_data(Deref(b, p + 1)))
            IN  IF cp2 < 2048 THEN fail(Overlong, start, p + 2)
                ELSE Outcome(p + 2, cp2, EmptyReason)

\* fourbyte without the check against U+10FFFF
fourbyte_no_limit(b, start, end, current, p) ==
    LET cp0 == extract_and_shift(current, HIGH_FIVE_BITS, 18)
        e1 == is_valid_continuation_byte(b, p, end)
        e2 == is_valid_continuation_byte(b, p + 1, end)
        e3 == is_valid_continuation_byte(b, p + 2, end)
    IN  IF e1 # nullptr THEN fail(e1, start, p)
        ELSE IF e2 # nullptr THEN fail(e2, start, p + 1)
        ELSE IF e3 # nullptr THEN fail(e3, start, p + 2)
        ELSE
        LET cp3 == BitOr(BitOr(BitOr(cp0,
                       ShiftLeft(continuation_data(Deref(b, p)), 12)),
                       ShiftLeft(continuation_data(Deref(b, p + 1)), 6)),
                       continuation_data(Deref(b, p + 2)))
        IN  IF cp3 < 65536 THEN fail(Overlong, start, p + 3)
            ELSE Outcome(p + 3, cp3, EmptyReason)

\* 11110xxx - four character multibyte
fourbyte(b, start, end, current, p) ==
    LET cp0 == extract_and_shift(current, HIGH_FIVE_BITS, 18)
        e1 == is_valid_continuation_byte(b, p, end)
    IN  IF e1 # nullptr THEN fail(e1, start, p)
        ELSE
        LET cp1 == BitOr(cp0, ShiftLeft(continuation_data(Deref(b, p)), 12))
            e2 == is_valid_continuation_byte(b, p + 1, end)
        IN  IF e2 # nullptr THEN fail(e2, start, p + 1)
            ELSE
            LET cp2 == BitOr(cp1, ShiftLeft(continuation_data(Deref(b, p + 1)), 6))
                e3 == is_valid_continuation_byte(b, p + 2, end)
            IN  IF e3 # nullptr THEN fail(e3, start, p + 2)
                ELSE
                LET cp3 == BitOr(cp2, continuation_data(Deref(b, p + 2)))
                IN  IF cp3 < 65536 THEN fail(Overlong, start, p + 3)
                    ELSE IF cp3 > 1114111 THEN fail(NonUnicode, start, p + 3)
                    ELSE Outcome(p + 3, cp3, EmptyReason)

\* next_codepoint(start, end, &codepoint, &reason); cp is what *codepoint
\* held before the call (left alone on an empty range)
next_codepoint(b, start, end, cp) ==
    IF start = end THEN Outcome(start, cp, EmptyReason)
    ELSE
    LET current == Deref(b, start)
        p == start + 1
    IN  IF is_standalone(current) THEN Outcome(p, current, EmptyReason)
        ELSE IF is_twobyte_start(current) THEN twobyte(b, start, end, current, p)
        ELSE IF is_threebyte_start(current) THEN threebyte(b, start, end, current, p)
        ELSE IF is_fourbyte_start(current) THEN fourbyte(b, start, end, current, p)
        ELSE fail(InvalidInitial, start, p)

---------------------------------------------------------------------------
(* The returned iterator                                                   *)
(*                                                                         *)
(* next_codepoint, fail and next_textual_element return `Iterator &&`, and *)
(* what they return is std::move of a local of the function that returns   *)
(* (or, for fail, of its caller next_codepoint, which returns it on).  The *)
(* local is dead when the caller copies the iterator out of the reference, *)
(* so the copy is undefined.  The outcomes modelled, one per build:        *)
(*   "slot_intact"     the dead local still holds its last value;          *)
(*   "slot_reused"     it holds some other iterator into the range;        *)
(*   "null_reference"  the compiler returned a null reference for the      *)
(*                     local's address and the copy traps.                 *)
(***************************************************************************)

Builds == {"slot_intact", "slot_reused", "null_reference"}

\* the values a copy out of the returned reference can yield, v being the
\* value of the local at the return statement
Reads(b, v) ==
    CASE build = "slot_intact" -> {v}
      [] build = "slot_reused" -> 0..Len(b)
      [] build = "null_reference" -> {}

\* the copy out of the returned reference traps
Traps == build = "null_reference"

---------------------------------------------------------------------------
(* Inputs *)

\* one byte of every class: ASCII, continuation (lowest, highest), the
\* leads 0xC2, 0xE0, 0xF4, and 0xFF
Bytes == {65, 128, 191, 194, 224, 244, 255}

\* byte ranges at the thresholds of the range checks
ThresholdBufs ==
    { <<192, 128>>,            \* 0x00 in two bytes
      <<193, 191>>,            \* 0x7F in two bytes
      <<223, 191>>,            \* 0x7FF
      <<224, 159, 191>>,       \* 0x7FF in three bytes
      <<224, 160, 128>>,       \* 0x800
      <<237, 160, 128>>,       \* 0xD800
      <<239, 191, 191>>,       \* 0xFFFF
      <<240, 128, 128, 128>>,  \* 0x00 in four bytes
      <<240, 143, 191, 191>>,  \* 0xFFFF in four bytes
      <<240, 144, 128, 128>>,  \* 0x10000
      <<244, 143, 191, 191>>,  \* 0x10FFFF
      <<244, 144, 128, 128>>,  \* 0x110000
      <<247, 191, 191, 191>>,  \* 0x1FFFFF
      <<248, 136, 128, 128>>,  \* a five-byte lead
      <<65, 192, 128, 65>>, <<65, 240, 143, 191, 191>>,
      <<240, 144, 65>>, <<0>>, <<127>> }

SeqsUpTo(S, n) == UNION { [1..k -> S] : k \in 0..n }

Bufs == SeqsUpTo(Bytes, MaxLen) \cup ThresholdBufs

InitCommon ==
    /\ build \in Builds
    /\ keep_going = "never"
    /\ begin = 0
    /\ cbegin = 0
    /\ position = 0
    /\ codepoint = 0
    /\ reason = EmptyReason
    /\ seen_end = FALSE
    /\ ret = TRUE
    /\ calls = 0

---------------------------------------------------------------------------
(* The decoder called once on [start, end) of a byte range; the caller     *)
(* copies the returned iterator into `position`.                           *)

InitDecode ==
    /\ buf \in Bufs
    /\ scalars = << >>
    /\ pc = "idle"
    /\ InitCommon

CallNextCodepoint(start) ==
    /\ pc = "idle"
    /\ LET r == next_codepoint(buf, start, Len(buf), codepoint)
       IN  /\ codepoint' = r.codepoint
           /\ reason' = r.reason
           /\ \/ /\ \E p \in Reads(buf, r.position) : position' = p
                 /\ pc' = "returned"
              \/ /\ Traps
                 /\ pc' = "crashed"
                 /\ UNCHANGED position
    /\ begin' = start
    /\ calls' = calls + 1
    /\ UNCHANGED << buf, scalars, keep_going, build, cbegin, seen_end, ret >>

NextDecode == \E start \in 0..Len(buf) : CallNextCodepoint(start)

SpecDecode == InitDecode /\ [][NextDecode]_vars

---------------------------------------------------------------------------
(* Validity scanner: is_valid_internal(begin, end, &reason), one loop      *)
(* iteration at a time.  The caller's reason_t starts out empty; `begin`   *)
(* is offset 0.                                                            *)

\* reason->position += cbegin - begin
correct_offset(rsn, cb, bgn) ==
    [rsn EXCEPT !.position = @ + (cb - bgn)]

InitValid ==
    /\ buf \in Bufs
    /\ scalars = << >>
    /\ pc = "while"
    /\ InitCommon

\* the body of `while (cbegin != end)`; cend is kept in `position`
ValidStep ==
    /\ pc = "while"
    /\ cbegin # Len(buf)
    /\ calls < Len(buf) + ExtraCalls
    /\ calls' = calls + 1
    /\ LET r == next_codepoint(buf, cbegin, Len(buf), codepoint)
       IN  /\ codepoint' = r.codepoint
           /\ \/ \E cend \in Reads(buf, r.position) :
                   /\ position' = cend
                   /\ IF r.reason.explanation # ""
                      THEN /\ reason' = correct_offset(r.reason, cbegin, begin)
                           /\ ret' = FALSE
                           /\ pc' = "done"
                           /\ UNCHANGED cbegin
                      ELSE /\ reason' = r.reason
                           /\ cbegin' = cend
                           /\ UNCHANGED << ret, pc >>
              \/ /\ Traps
                 /\ pc' = "crashed"
                 /\ reason' = r.reason
                 /\ UNCHANGED << cbegin, position, ret >>
    /\ UNCHANGED << buf, scalars, keep_going, build, begin, seen_end >>

\* the loop ends: return true
ValidReturn ==
    /\ pc = "while"
    /\ cbegin = Len(buf)
    /\ ret' = TRUE
    /\ pc' = "done"
    /\ UNCHANGED << buf, scalars, keep_going, build, begin, cbegin, position,
                    codepoint, reason, seen_end, calls >>

NextValid == ValidStep \/ ValidReturn

SpecValid == InitValid /\ [][NextValid]_vars

---------------------------------------------------------------------------
(* The scanner run on the shortest-form encoding of scalar values *)

Scalars == {0, 65, 127, 128, 2047, 2048, 55296, 65533, 65535, 65536, 1114111}

\* the shortest-form UTF-8 encoding of one scalar value
Encode(v) ==
    IF v < 128 THEN << v >>
    ELSE IF v < 2048 THEN << 192 + (v \div 64), 128 + (v % 64) >>
    ELSE IF v < 65536 THEN
        << 224 + (v \div 4096), 128 + ((v \div 64) % 64), 128 + (v % 64) >>
    ELSE << 240 + (v \div 262144), 128 + ((v \div 4096) % 64),
            128 + ((v \div 64) % 64), 128 + (v % 64) >>

RECURSIVE EncodeAll(_)
EncodeAll(vs) ==
    IF vs = << >> THEN << >> ELSE Encode(Head(vs)) \o EncodeAll(Tail(vs))

InitRoundTrip ==
    /\ scalars \in SeqsUpTo(Scalars, MaxScalars)
    /\ buf = EncodeAll(scalars)
    /\ pc = "while"
    /\ InitCommon

SpecRoundTrip == InitRoundTrip /\ [][NextValid]_vars

---------------------------------------------------------------------------
(* Cursor: iterator_t over [0, Len(buf)); `start` is offset 0 *)

\* the cursor as opened: at the start of the range, not exhausted
InitCursor ==
    /\ buf \in SeqsUpTo(Bytes, MaxScanLen) \cup ThresholdBufs
    /\ scalars = << >>
    /\ pc = "cursor"
    /\ InitCommon

\* iterator_t::advance(); saw_error() is `reason.explanation` not empty
advance ==
    /\ pc = "cursor"
    /\ calls < Len(buf) + 1 + ExtraCalls
    /\ calls' = calls + 1
    /\ IF seen_end
       THEN UNCHANGED << position, codepoint, reason, seen_end, pc >>
       ELSE IF position = Len(buf)
       THEN /\ seen_end' = TRUE
            /\ codepoint' = 0
            /\ reason' = [explanation |-> "", position |-> 0]
            /\ UNCHANGED << position, pc >>
       ELSE LET r == next_codepoint(buf, position, Len(buf), codepoint)
            IN  /\ codepoint' = r.codepoint
                /\ UNCHANGED seen_end
                /\ \/ \E new_position \in Reads(buf, r.position) :
                        /\ reason' = IF r.reason.explanation # ""
                                     THEN correct_offset(r.reason, position, 0)
                                     ELSE r.reason
                        /\ position' = new_position
                        /\ UNCHANGED pc
                   \/ /\ Traps
                      /\ pc' = "crashed"
                      /\ reason' = r.reason
                      /\ UNCHANGED position
    /\ UNCHANGED << buf, scalars, keep_going, build, begin, cbegin, ret >>

NextCursor == advance

SpecCursor == InitCursor /\ [][NextCursor]_vars

---------------------------------------------------------------------------
(* Textual element scanner: the caller takes element after element, each   *)
(* call of next_textual_element one iteration of its loop at a time.       *)

\* ASCII, a continuation byte, a 2-byte and a 3-byte lead, an invalid byte
ElementBytes == {65, 128, 194, 224, 255}

ElementBufs ==
    SeqsUpTo(ElementBytes, MaxScanLen)
        \cup { <<65, 194, 128, 65>>, <<65, 194, 128, 255>>,
               <<65, 204, 129, 204>>, <<240, 159, 152, 128>>,
               <<65, 224, 128>>, <<224, 160, 128, 65>> }

\* the predicates a caller hands in
Predicates == {"never", "always", "nonascii"}

\* keep_going(codepoint) for the predicate named k
Apply(k, cp) ==
    CASE k = "never" -> FALSE
      [] k = "always" -> TRUE
      [] k = "nonascii" -> cp >= 128

InitElement ==
    /\ buf \in ElementBufs
    /\ keep_going \in Predicates
    /\ scalars = << >>
    /\ pc = "scan"
    /\ build \in Builds
    /\ begin = 0
    /\ cbegin = 0
    /\ position = 0
    /\ codepoint = 0
    /\ reason = EmptyReason
    /\ seen_end = FALSE
    /\ ret = TRUE
    /\ calls = 0

\* next_textual_element is entered with begin where the last element ended
CallNextTextualElement ==
    /\ pc = "scan"
    /\ position # Len(buf)
    /\ calls < Len(buf) + ExtraCalls
    /\ calls' = calls + 1
    /\ begin' = position
    /\ cbegin' = position
    /\ pc' = "do"
    /\ UNCHANGED << buf, scalars, keep_going, build, position, codepoint,
                    reason, seen_end, ret >>

\* `return std::move(v)` and the caller's copy of it into `position`
return_iterator(v) ==
    /\ \E p \in Reads(buf, v) : position' = p
    /\ pc' = "scan"

\* one iteration of the do-while loop, up to the return it may reach
ElementStep ==
    /\ pc = "do"
    /\ LET r == next_codepoint(buf, cbegin, Len(buf), codepoint)
       IN  /\ codepoint' = r.codepoint
           /\ \/ \E cend \in Reads(buf, r.position) :
                   IF r.reason.explanation # ""
                   THEN /\ reason' = correct_offset(r.reason, cbegin, begin)
                        /\ return_iterator(IF cbegin = begin THEN cend
                                                            ELSE cbegin)
                        /\ UNCHANGED cbegin
                   ELSE IF cbegin # begin /\ ~Apply(keep_going, r.codepoint)
                   THEN /\ reason' = r.reason
                        /\ return_iterator(cbegin)
                        /\ UNCHANGED cbegin
                   ELSE /\ reason' = r.reason
                        /\ cbegin' = cend
                        /\ IF cend # Len(buf)
                           THEN UNCHANGED << pc, position >>
                           ELSE return_iterator(cend)
              \/ /\ Traps
                 /\ pc' = "crashed"
                 /\ reason' = r.reason
                 /\ UNCHANGED << cbegin, position >>
    /\ UNCHANGED << buf, scalars, keep_going, build, begin, seen_end, ret,
                    calls >>

NextElement == CallNextTextualElement \/ ElementStep

SpecElement == InitElement /\ [][NextElement]_vars

---------------------------------------------------------------------------
(* Properties of one call of next_codepoint, checked under SpecDecode.     *)
(* They describe the bytes by their values, not by the classifier.         *)

Returned == pc = "returned"
Intact == build = "slot_intact"
Failed == reason.explanation # ""
End == Len(buf)

\* number of bytes the lead byte c announces, 0 for no valid lead
SeqLen(c) ==
    IF c < 128 THEN 1
    ELSE IF c >= 192 /\ c < 224 THEN 2
    ELSE IF c >= 224 /\ c < 240 THEN 3
    ELSE IF c >= 240 /\ c < 248 THEN 4
    ELSE 0

IsCont(c) == c >= 128 /\ c < 192

\* the first offset k >= 1 from s at which there is no continuation byte
RECURSIVE ContRun(_, _, _)
ContRun(b, s, k) ==
    IF s + k < Len(b) /\ IsCont(Deref(b, s + k)) THEN ContRun(b, s, k + 1)
    ELSE k

\* the slot, counted from s, of the continuation byte that is missing
ExpectedSlot(b, s) == ContRun(b, s, 1)

\* a valid multi-byte lead at s followed by all its continuation bytes
Complete(b, s) ==
    /\ s < Len(b)
    /\ SeqLen(Deref(b, s)) >= 2
    /\ ExpectedSlot(b, s) >= SeqLen(Deref(b, s))

\* the value a complete sequence at s accumulates
Value(b, s) ==
    LET n == SeqLen(Deref(b, s))
        d(i) == Deref(b, s + i) - 128
    IN  CASE n = 2 -> (Deref(b, s) - 192) * 64 + d(1)
          [] n = 3 -> (Deref(b, s) - 224) * 4096 + d(1) * 64 + d(2)
          [] n = 4 -> (Deref(b, s) - 240) * 262144 + d(1) * 4096
                      + d(2) * 64 + d(3)

\* the least value that needs n bytes
MinValue(n) == CASE n = 2 -> 128 [] n = 3 -> 2048 [] n = 4 -> 65536

\* C1: a call of next_codepoint on a non-empty range returns a position at
\* least one byte past start, on success and on every kind of failure.
C1_Progress ==
    (Returned /\ begin # End) => position >= begin + 1

\* C4: when a required continuation byte is missing, the reported offset is
\* the slot where it was expected: just past the last available byte at the
\* end of input, the offending byte's own offset otherwise.
C4_ExpectedSlot ==
    (Returned /\ reason.explanation \in {EndOfString, SomethingElse})
        => reason.position = ExpectedSlot(buf, begin)

\* what the code reports instead: one byte before the expected slot
C4_AsCoded ==
    (Returned /\ reason.explanation \in {EndOfString, SomethingElse})
        => reason.position = ExpectedSlot(buf, begin) - 1

\* C5: on every failure the codepoint is U+FFFD and the returned position
\* is one past the byte that triggered detection: one past the lead byte
\* for InvalidLeadByte, one past the last consumed byte for
\* OverlongEncoding and CodepointOutOfRange, one past the offending
\* non-continuation byte for UnexpectedByte.
C5_Original ==
    (Returned /\ Failed) =>
        /\ codepoint = 65533
        /\ reason.explanation = InvalidInitial => position = begin + 1
        /\ reason.explanation \in {Overlong, NonUnicode}
               => position = begin + SeqLen(Deref(buf, begin))
        /\ reason.explanation = SomethingElse
               => position = begin + ExpectedSlot(buf, begin) + 1

\* C5 where the dead local is intact, which fails as well: the position
\* of an UnexpectedByte failure is the offending byte, not one past it
C5_OriginalIfIntact == Intact => C5_Original

\* the positions of C5 as next_codepoint computes them: for UnexpectedByte
\* the offending non-continuation byte itself
C5_AsCoded ==
    (Returned /\ Failed) =>
        /\ codepoint = 65533
        /\ reason.explanation = InvalidInitial => position = begin + 1
        /\ reason.explanation \in {Overlong, NonUnicode}
               => position = begin + SeqLen(Deref(buf, begin))
        /\ reason.explanation = SomethingElse
               => /\ position = begin + ExpectedSlot(buf, begin)
                  /\ position < End
                  /\ ~IsCont(Deref(buf, position))
        /\ reason.explanation = EndOfString => position = End

\* C6: a complete 2-, 3- or 4-byte sequence fails as overlong exactly when
\* its value is below 0x80, 0x800, 0x10000, fails as out of range exactly
\* when a 4-byte value exceeds 0x10FFFF, and otherwise succeeds with that
\* value; either failure is reported at the offset of the last byte.
C6_RangeChecks ==
    (Returned /\ Complete(buf, begin)) =>
        LET n == SeqLen(Deref(buf, begin))
            v == Value(buf, begin)
        IN  /\ reason.explanation = Overlong <=> v < MinValue(n)
            /\ reason.explanation = NonUnicode <=> (n = 4 /\ v > 1114111)
            /\ reason.explanation \in {"", Overlong, NonUnicode}
            /\ Failed => (reason.position = n - 1 /\ codepoint = 65533)
            /\ ~Failed => codepoint = v

\* F4 90 80 80 decoded from its lead: out of range at offset 3
C6_Witness ==
    /\ Returned /\ Complete(buf, begin)
    /\ Len(buf) >= begin + 4
    /\ SubSeq(buf, begin + 1, begin + 4) = <<244, 144, 128, 128>>
    /\ reason = [explanation |-> NonUnicode, position |-> 3]

\* C7 as stated: decoding [0xC0, 0x80] fails as overlong at offset 0.
C7_Original ==
    (Returned /\ buf = <<192, 128>> /\ begin = 0)
        => reason = [explanation |-> Overlong, position |-> 0]

\* C7 amended: decoding [0xC0, 0x80] fails as overlong at offset 1, the
\* offset of the last consumed byte.
C7_Amended ==
    (Returned /\ buf = <<192, 128>> /\ begin = 0)
        => reason = [explanation |-> Overlong, position |-> 1]

C7_Witness ==
    /\ Returned /\ buf = <<192, 128>> /\ begin = 0
    /\ reason.explanation = Overlong
    /\ codepoint = 65533

\* where the dead local is intact, the returned position is as C1 says
\* and as next_codepoint computes it
Decode_IfIntact == Intact => (C1_Progress /\ C5_AsCoded)

---------------------------------------------------------------------------
(* Properties of the scans.  Where a range is cut into codepoints here, it *)
(* is cut by the byte values (SeqLen, Value), not by the decoder.          *)

\* the bytes at p are one well-formed encoded codepoint
WellFormedAt(b, p) ==
    LET n == SeqLen(Deref(b, p))
    IN  \/ n = 1
        \/ /\ Complete(b, p)
           /\ Value(b, p) >= MinValue(n)
           /\ Value(b, p) <= 1114111

\* start of the first codepoint from p on that is not well formed, -1 if
\* there is none up to the end
RECURSIVE FirstBad(_, _)
FirstBad(b, p) ==
    IF p = Len(b) THEN -1
    ELSE IF WellFormedAt(b, p) THEN FirstBad(b, p + SeqLen(Deref(b, p)))
    ELSE p

CodepointAt(b, p) ==
    IF SeqLen(Deref(b, p)) = 1 THEN Deref(b, p) ELSE Value(b, p)

RECURSIVE CountCodepoints(_, _)
CountCodepoints(b, p) ==
    IF p = Len(b) THEN 0 ELSE 1 + CountCodepoints(b, p + SeqLen(Deref(b, p)))

\* start of the first codepoint from p on that predicate k refuses, the end
\* if there is none (the range from p on is well formed)
RECURSIVE Stop(_, _, _)
Stop(b, p, k) ==
    IF p = Len(b) THEN p
    ELSE IF ~Apply(k, CodepointAt(b, p)) THEN p
    ELSE Stop(b, p + SeqLen(Deref(b, p)), k)

\* the reason of the decoder step at f, its offset counted from bgn
StepReason(b, f, bgn) ==
    LET r == next_codepoint(b, f, Len(b), 0)
    IN  [explanation |-> r.reason.explanation,
         position |-> r.reason.position + (f - bgn)]

\* C2: is_valid returns true exactly when decoding from offset 0 reaches
\* the end with no failure; when it returns false the reason is that of
\* the first failing step, its offset moved by the distance from the start
\* of the buffer to the start of that step.
C2_Validate ==
    pc = "done" =>
        LET f == FirstBad(buf, 0)
        IN  /\ ret = TRUE <=> f = -1
            /\ ret = FALSE => (Failed /\ reason = StepReason(buf, f, 0))

\* where the dead local is intact, the scan is as C2 says
Valid_IfIntact == Intact => C2_Validate

\* C3: the concatenated shortest-form encodings of scalar values in
\* [0, 0x10FFFF] are accepted by is_valid, and the steps of the scan decode
\* exactly those values in order with no failure; the steps over an
\* all-ASCII buffer decode its byte values.
C3_RoundTrip ==
    /\ ~Failed
    /\ (pc = "while" /\ calls > 0) =>
           /\ calls <= Len(scalars)
           /\ codepoint = scalars[calls]
           /\ (\A i \in 1..Len(buf) : buf[i] < 128) => codepoint = buf[calls]
    /\ pc = "done" => (ret = TRUE /\ calls = Len(scalars))

\* where the dead local is intact, the round trip is as C3 says
RoundTrip_IfIntact == Intact => C3_RoundTrip

\* what C8 says of one advance() that returns
C8_Step ==
    pc' = "cursor" =>
        /\ (~seen_end /\ position = Len(buf)) =>
               /\ seen_end'
               /\ position' = position
               /\ codepoint' = 0
               /\ reason' = EmptyReason
        /\ (~seen_end /\ position # Len(buf)) =>
               /\ ~seen_end'
               /\ position' > position
        /\ seen_end => UNCHANGED << position, codepoint, reason, seen_end >>
        /\ calls' >= Len(buf) + 1 => seen_end'

\* C8: exhausted is set exactly by the first advance() made at the end,
\* which decodes nothing and clears last_codepoint and reason; an advance()
\* away from the end strictly increases position and leaves exhausted
\* false, so exhausted holds after at most N + 1 advances; once exhausted,
\* advance() changes no field.
C8_Exhaustion == [][C8_Step]_vars

\* where the dead local is intact, every advance() is as C8 says
Cursor_IfIntact == [][Intact => C8_Step]_vars

\* C9: on a non-empty range that decodes without failure,
\* next_textual_element takes the first codepoint whatever keep_going says
\* and returns the start of the first later codepoint keep_going refuses,
\* or end, with an empty reason; so with the always-false predicate a valid
\* buffer is split into one element per codepoint, and with the always-true
\* predicate one call returns the whole buffer.
C9_Element ==
    (pc = "scan" /\ calls > 0 /\ FirstBad(buf, begin) = -1) =>
        /\ position = Stop(buf, begin + SeqLen(Deref(buf, begin)), keep_going)
        /\ ~Failed
        /\ keep_going = "never" =>
               /\ position = begin + SeqLen(Deref(buf, begin))
               /\ (FirstBad(buf, 0) = -1 /\ position = End)
                      => calls = CountCodepoints(buf, 0)
        /\ keep_going = "always" => position = End
        /\ (keep_going = "always" /\ FirstBad(buf, 0) = -1) => calls = 1

\* C10: when a decode fails inside next_textual_element, the returned
\* position is right after the failing bytes if the failing codepoint is
\* the first of the element, and the start of the failing codepoint if it
\* is a later one; the reason is that of the failing step, its offset
\* counted from the begin of the call.
C10_ElementFailure ==
    (pc = "scan" /\ calls > 0 /\ Failed) =>
        LET f == FirstBad(buf, begin)
        IN  /\ f # -1
            /\ f = begin =>
                   /\ position = next_codepoint(buf, f, End, 0).position
                   /\ position > begin
            /\ f # begin => position = f
            /\ reason = StepReason(buf, f, begin)

\* where the dead locals are intact, the elements are as C9 and C10 say
Element_IfIntact == Intact => (C9_Element /\ C10_ElementFailure)

===========================================================================
